---- MODULE Spec2Model ----
(***************************************************************************)
(* Model of celery_prometheus_exporter.py: the event monitor thread (task  *)
(* registry, derived gauges, reconnect loop), the worker liveness sampler  *)
(* and the queue sampler.                                                  *)
(*                                                                         *)
(* The exporter delegates the registry to celery.events.state.State, whose *)
(* tasks mapping is a kombu LRUCache, and the metric surfaces to           *)
(* prometheus_client.  The parts of those libraries that the exporter      *)
(* calls are modelled by what they do at the call site:                    *)
(*   LRUCache.__getitem__  re-inserts the key at the young end,            *)
(*   LRUCache.__setitem__  drops the oldest key when len >= limit,         *)
(*   State._event          looks the task up WITHOUT touching the LRU      *)
(*                         order and applies Task.event,                   *)
(*   Task.event            keeps the current state when the event's state  *)
(*                         logically precedes it (celery.states.PRECEDENCE)*)
(*                         and neither is RETRY,                           *)
(*   metric.labels(...)    turns every label value into a string.          *)
(***************************************************************************)
EXTENDS Integers, Sequences, FiniteSets, TLC

\* ------------------------------------------------------------------ bounds
MaxTasksInMemory == 2
MaxEvents == 3
MaxPing == 4
MaxPayloads == 2

\* --------------------------------------------------------------- the domain
Uuids == 1..(MaxTasksInMemory + 1)
Names == {"A"}
QueueNames == {"q1", "q2"}

\* Python's None, and what str() makes of it when it is used as a label value
None == "<None>"
Str(x) == IF x = None THEN "None" ELSE x

\* celery.states
PENDING == "PENDING"
RECEIVED == "RECEIVED"
STARTED == "STARTED"
SUCCESS == "SUCCESS"
FAILURE == "FAILURE"
RETRY == "RETRY"
REVOKED == "REVOKED"
REJECTED == "REJECTED"

READY_STATES_without_revoked == {SUCCESS, FAILURE}

READY_STATES == {SUCCESS, FAILURE, REVOKED}
ALL_STATES == {PENDING, RECEIVED, STARTED, SUCCESS, FAILURE, RETRY, REVOKED}

\* celery.states.PRECEDENCE: position of a state in the precedence list
\* (SUCCESS, FAILURE, None, REVOKED, STARTED, RECEIVED, REJECTED, RETRY, PENDING)
precedence(s) ==
    CASE s = SUCCESS -> 0
      [] s = FAILURE -> 1
      [] s = REVOKED -> 3
      [] s = STARTED -> 4
      [] s = RECEIVED -> 5
      [] s = REJECTED -> 6
      [] s = RETRY -> 7
      [] s = PENDING -> 8
      [] OTHER -> 2

\* a task event type that TASK_EVENT_TO_STATE does not know
CustomTaskEventTypes == {"task-progress"}

\* celery.events.state.TASK_EVENT_TO_STATE, keyed by evt['type'][5:]
TaskEventTypes == {"task-sent", "task-received", "task-started", "task-failed",
                   "task-retried", "task-succeeded", "task-revoked", "task-rejected"}
TASK_EVENT_TO_STATE(type) ==
    CASE type = "task-sent" -> PENDING
      [] type = "task-received" -> RECEIVED
      [] type = "task-started" -> STARTED
      [] type = "task-failed" -> FAILURE
      [] type = "task-retried" -> RETRY
      [] type = "task-succeeded" -> SUCCESS
      [] type = "task-revoked" -> REVOKED
      [] type = "task-rejected" -> REJECTED

\* ------------------------------------------------------------------- state
VARIABLES
    tasks,               \* self._state.tasks: records, oldest first
    known_states,        \* self._known_states
    known_states_names,  \* self._known_states_names
    TASKS,               \* gauge celery_tasks{state}
    TASKS_NAME,          \* gauge celery_tasks_by_name{state,name}
    TASKS_RUNTIME,       \* histogram celery_tasks_runtime_seconds{name}: count
    LATENCY,             \* histogram celery_task_latency: count and sum
    WORKERS,             \* gauge celery_workers
    QUEUE_SIZE,          \* gauge celery_queue_size{name}
    QUEUE_TASKS,         \* gauge celery_queue_tasks{name,task}
    redis,               \* the broker's queues: name -> payloads
    pc,                  \* position of the monitor thread in _monitor
    nseen,               \* number of distinct task ids delivered so far
    nevents,             \* number of events delivered so far
    last,                \* the last step: the operation and its input, the
                         \* state its record had, the records it dropped,
                         \* whether it was the first step of a session
    mutex,               \* self._state._mutex: the handlers that hold it
    hpc,                 \* position of each handler inside _process_event
    hevt,                \* the event each handler was called with
    snap,                \* the monitor's data when the mutex was last taken
    spc                  \* position of each sampler thread in its run() loop

handlerVars == <<mutex, hpc, hevt, snap>>

vars == <<tasks, known_states, known_states_names, TASKS, TASKS_NAME,
          TASKS_RUNTIME, LATENCY, WORKERS, QUEUE_SIZE, QUEUE_TASKS,
          redis, pc, nseen, nevents, last, mutex, hpc, hevt, snap, spc>>


\* the execution contexts that may call _process_event at the same time
Handlers == {1, 2}
\* the sampler threads main() starts next to the monitor thread
Samplers == {"worker", "queue", "enable"}

\* ----------------------------------------------- labelled metric children
\* A labelled metric is a function from the label tuples that have a child
\* to the child's value; labels(k) creates the child at 0 when it is missing.
Val(m, k) == IF k \in DOMAIN m THEN m[k] ELSE 0
SetLabel(m, k, v) == [x \in DOMAIN m \cup {k} |-> IF x = k THEN v ELSE m[x]]
IncLabel(m, k) == SetLabel(m, k, Val(m, k) + 1)
Empty == [x \in {} |-> 0]

\* ------------------------------------------------- the registry (LRUCache)
IndexOf(t, uuid) == CHOOSE i \in 1..Len(t) : t[i].uuid = uuid
Has(t, uuid) == \E i \in 1..Len(t) : t[i].uuid = uuid
Get(t, uuid) == t[IndexOf(t, uuid)]
Without(t, uuid) == SelectSeq(t, LAMBDA r : r.uuid # uuid)
UuidsOf(t) == {t[i].uuid : i \in 1..Len(t)}

lru_setitem_drops_youngest(t, rec) ==
    IF MaxTasksInMemory # 0 /\ Len(t) >= MaxTasksInMemory
    THEN Append(SubSeq(t, 1, Len(t) - 1), rec)
    ELSE Append(t, rec)

\* LRUCache.__setitem__ for a key that is not in the cache: when the cache
\* holds limit keys (and limit is not 0) the oldest key is dropped first.
lru_setitem(t, rec) ==
    IF MaxTasksInMemory # 0 /\ Len(t) >= MaxTasksInMemory
    THEN Append(Tail(t), rec)
    ELSE Append(t, rec)

\* LRUCache.__getitem__: value = self[key] = self.data.pop(key); the key
\* becomes the youngest one.
lru_getitem(t, uuid) == Append(Without(t, uuid), Get(t, uuid))

\* celery Task(uuid): state PENDING, every other field None.  inserted is a
\* ghost field: the clock at which the record entered the registry.
NewTask(uuid, at) ==
    [uuid |-> uuid, state |-> PENDING, name |-> None, local_received |-> None,
     inserted |-> at]

task_event_overwrites(rec, evt, state) ==
    [uuid |-> rec.uuid,
     state |-> state,
     name |-> IF evt.name # None THEN evt.name ELSE rec.name,
     local_received |-> evt.local_received,
     inserted |-> rec.inserted]

\* celery Task.event(type, timestamp, local_received, fields): the event's
\* state replaces the task's state unless it logically precedes it (and
\* neither is RETRY); then the event is merged: a late 'received' brings only
\* the fields of merge_rules[RECEIVED] (name among them), any other late
\* event brings all its fields but no state.
task_event(rec, evt, state) ==
    LET merge == state # RETRY /\ rec.state # RETRY
                 /\ precedence(state) > precedence(rec.state)
        keepOnly == merge /\ state = RECEIVED
    IN  [uuid |-> rec.uuid,
         state |-> IF merge THEN rec.state ELSE state,
         name |-> IF evt.name # None THEN evt.name ELSE rec.name,
         local_received |-> IF keepOnly THEN rec.local_received
                            ELSE evt.local_received,
         inserted |-> rec.inserted]

\* State._event(evt) for a task event: get-or-create the task (the lookup
\* goes to tasks.data and leaves the LRU order alone), then Task.event.
state_event(t, evt, state) ==
    IF Has(t, evt.uuid)
    THEN [t EXCEPT ![IndexOf(t, evt.uuid)] = task_event(@, evt, state)]
    ELSE lru_setitem(t, task_event(NewTask(evt.uuid, evt.local_received), evt, state))

\* --------------------------------------------------------- MonitorThread
\* _observe_latency: the lookup self._state.tasks[uuid] is an LRU access.
observe_latency_tasks(t, evt) ==
    IF Has(t, evt.uuid) THEN lru_getitem(t, evt.uuid) ELSE t

observe_latency_any_state(lat, t, evt) ==
    IF Has(t, evt.uuid)
    THEN [count |-> lat.count + 1,
          sum |-> lat.sum + (evt.local_received - Get(t, evt.uuid).local_received)]
    ELSE lat

observe_latency(lat, t, evt) ==
    IF Has(t, evt.uuid) /\ Get(t, evt.uuid).state = RECEIVED
    THEN [count |-> lat.count + 1,
          sum |-> lat.sum + (evt.local_received - Get(t, evt.uuid).local_received)]
    ELSE lat

\* _incr_ready_task: the four effects of the terminal-event path
incr_ready_TASKS(m, evt, state) == IncLabel(m, state)

incr_ready_tasks_keeps(t, evt) == t

incr_ready_tasks(t, evt) == Without(t, evt.uuid)

incr_ready_TASKS_NAME(m, t, evt, state) ==
    IF Has(t, evt.uuid)
    THEN IncLabel(m, <<state, Str(Get(t, evt.uuid).name)>>)
    ELSE m

incr_ready_TASKS_RUNTIME(m, t, evt) ==
    IF Has(t, evt.uuid) /\ evt.runtime
    THEN IncLabel(m, Str(Get(t, evt.uuid).name))
    ELSE m

\* _collect_unready_tasks
CountState(t, s) == Cardinality({i \in 1..Len(t) : t[i].state = s})
CountStateName(t, sn) ==
    Cardinality({i \in 1..Len(t) : t[i].state = sn[1] /\ t[i].name = sn[2]})

unready_known_states(ks, t) == ks \cup {t[i].state : i \in 1..Len(t)}

unready_known_states_names(ksn, t) ==
    ksn \cup {<<t[i].state, t[i].name>> : i \in {j \in 1..Len(t) : t[j].name # None}}

unready_TASKS_every_child(m, ks, t) ==
    [x \in DOMAIN m \cup ks |-> CountState(t, x)]

unready_TASKS(m, ks, t) ==
    [x \in DOMAIN m \cup ks |-> IF x \in ks THEN CountState(t, x) ELSE m[x]]

unready_TASKS_NAME(m, ksn, t) ==
    [x \in DOMAIN m \cup ksn |-> IF x \in ksn THEN CountStateName(t, x) ELSE m[x]]

reset_metrics_keeps(m, known_labels) == m

\* _reset_metrics(metrics, known_labels): every child whose label tuple is not
\* in known_labels is set to 0.  known_labels=None resets every child, which
\* is what the empty set of known labels does.
reset_metrics(m, known_labels) ==
    [x \in DOMAIN m |-> IF x \notin known_labels THEN 0 ELSE m[x]]

\* setup_metrics(app): ok says whether broker introspection answered,
\* registered is the set of task names it reported.
setup_TASKS(m, ok) ==
    IF ok
    THEN [x \in DOMAIN m \cup ALL_STATES |-> IF x \in ALL_STATES THEN 0 ELSE m[x]]
    ELSE reset_metrics(m, {})

setup_TASKS_NAME(m, ok, registered) ==
    IF ok
    THEN [x \in DOMAIN m \cup (ALL_STATES \X registered) |->
            IF x \in ALL_STATES \X registered THEN 0 ELSE m[x]]
    ELSE reset_metrics(m, {})

setup_metrics(ok, registered) ==
    /\ WORKERS' = 0
    /\ TASKS' = setup_TASKS(TASKS, ok)
    /\ TASKS_NAME' = setup_TASKS_NAME(TASKS_NAME, ok, registered)

\* The task events the receiver delivers.  'received' events carry the
\* task's name, 'succeeded' events carry a runtime and no other event does;
\* local_received is the receiver's clock, which advances with every task
\* event.  Task ids are opaque
\* (numbers stand for them): the first event of a task not seen before uses
\* the next unused id.
\* ('sent' events come from clients, and only when task_send_sent_event is
\* switched on; they are not delivered here.)
DeliveredTypes == TaskEventTypes \ {"task-sent"}

Events ==
    { [type |-> ty, uuid |-> u, name |-> n,
       local_received |-> nevents + 1, runtime |-> rt] :
        ty \in DeliveredTypes,
        u \in {v \in Uuids : v <= nseen + 1},
        n \in Names \cup {None}, rt \in BOOLEAN }

\* celery.events.group_from(type): the part of the type before the first '-'
group_from(type) ==
    IF type \in TaskEventTypes \cup CustomTaskEventTypes THEN "task" ELSE "worker"

\* Events of the task group whose sub-type is no key of TASK_EVENT_TO_STATE
\* (tasks may send events of their own, such as task-progress).  The task
\* such an event names is never looked up, so one id stands for all.
MalformedEvents ==
    { [type |-> ty, uuid |-> u, name |-> None,
       local_received |-> nevents + 1, runtime |-> FALSE] :
        ty \in CustomTaskEventTypes, u \in {v \in Uuids : v <= 1} }

\* The events of another group the receiver delivers to the same handler:
\* workers send heartbeats.  They name no task.
WorkerEvents ==
    { [type |-> ty, uuid |-> None, name |-> None,
       local_received |-> nevents + 1, runtime |-> FALSE] :
        ty \in {"worker-heartbeat"} }

WellFormed(e) ==
    /\ (e.name # None) <=> (e.type = "task-received")
    /\ e.runtime <=> e.type = "task-succeeded"

\* The data _process_event works on: the registry, the known labels and the
\* metrics the monitor writes.
MonitorState ==
    [tasks |-> tasks, known_states |-> known_states,
     known_states_names |-> known_states_names, TASKS |-> TASKS,
     TASKS_NAME |-> TASKS_NAME, TASKS_RUNTIME |-> TASKS_RUNTIME,
     LATENCY |-> LATENCY]

Publish(st) ==
    /\ tasks' = st.tasks
    /\ known_states' = st.known_states
    /\ known_states_names' = st.known_states_names
    /\ TASKS' = st.TASKS
    /\ TASKS_NAME' = st.TASKS_NAME
    /\ TASKS_RUNTIME' = st.TASKS_RUNTIME
    /\ LATENCY' = st.LATENCY

\* _process_event, lines 81-82: a STARTED event goes to _observe_latency
latency_step(st, evt) ==
    IF TASK_EVENT_TO_STATE(evt.type) = STARTED
    THEN [st EXCEPT !.tasks = observe_latency_tasks(st.tasks, evt),
                    !.LATENCY = observe_latency(st.LATENCY, st.tasks, evt)]
    ELSE st

\* _collect_tasks, lines 97-101: _incr_ready_task or self._state._event
collect_step(st, evt) ==
    LET state == TASK_EVENT_TO_STATE(evt.type)
    IN  IF state \in READY_STATES
        THEN [st EXCEPT
                !.TASKS = incr_ready_TASKS(st.TASKS, evt, state),
                !.TASKS_NAME = incr_ready_TASKS_NAME(st.TASKS_NAME, st.tasks, evt, state),
                !.TASKS_RUNTIME = incr_ready_TASKS_RUNTIME(st.TASKS_RUNTIME, st.tasks, evt),
                !.tasks = incr_ready_tasks(st.tasks, evt)]
        ELSE [st EXCEPT !.tasks = state_event(st.tasks, evt, state)]

\* _collect_tasks, line 102: _collect_unready_tasks
unready_step(st) ==
    LET ks == unready_known_states(st.known_states, st.tasks)
        ksn == unready_known_states_names(st.known_states_names, st.tasks)
    IN  [st EXCEPT !.known_states = ks,
                   !.known_states_names = ksn,
                   !.TASKS = unready_TASKS(st.TASKS, ks, st.tasks),
                   !.TASKS_NAME = unready_TASKS_NAME(st.TASKS_NAME, ksn, st.tasks)]

process_event_from_any_group(st, evt) ==
    IF group_from(evt.type) = "task"
    THEN unready_step(collect_step(latency_step(st, evt), evt))
    ELSE unready_step(st)

\* what _process_event makes of the monitor's data: an event of the task
\* group goes through lines 72-83, any other event through none of them
process_event_from(st, evt) ==
    IF group_from(evt.type) = "task"
    THEN unready_step(collect_step(latency_step(st, evt), evt))
    ELSE st

\* _process_event
process_event(evt) == Publish(process_event_from(MonitorState, evt))

\* ------------------------------------------------------ monitor thread steps
\* what broker introspection answers to setup_metrics: no answer, or the
\* registered task names of the workers that answered (those among Names)
Introspections == {[ok |-> FALSE, registered |-> {}]}
                  \cup {[ok |-> TRUE, registered |-> r] : r \in SUBSET Names}

\* main(): setup_metrics(app), then the threads are started
Main ==
    /\ pc = "main"
    /\ \E i \in Introspections :
         /\ setup_metrics(i.ok, i.registered)
         /\ last' = [op |-> "main", ok |-> i.ok, registered |-> i.registered]
    /\ pc' = "connect"
    /\ UNCHANGED <<tasks, known_states, known_states_names, TASKS_RUNTIME,
                   LATENCY, nseen, nevents, QUEUE_SIZE, QUEUE_TASKS, redis>>
    /\ UNCHANGED <<handlerVars, spc>>

\* _monitor: the connection and the receiver are set up, setup_metrics runs,
\* capture starts
Connect ==
    /\ pc = "connect"
    /\ \E i \in Introspections :
         /\ setup_metrics(i.ok, i.registered)
         /\ last' = [op |-> "connected", ok |-> i.ok, registered |-> i.registered]
    /\ pc' = "capture"
    /\ UNCHANGED <<tasks, known_states, known_states_names, TASKS_RUNTIME,
                   LATENCY, nseen, nevents, QUEUE_SIZE, QUEUE_TASKS, redis>>
    /\ UNCHANGED <<handlerVars, spc>>

Failure_clears_registry ==
    /\ pc \in {"connect", "capture"}
    /\ \E i \in Introspections :
         /\ setup_metrics(i.ok, i.registered)
         /\ last' = [op |-> "failure", ok |-> i.ok, registered |-> i.registered,
                      at |-> pc]
    /\ pc' = "sleep"
    /\ tasks' = <<>>
    /\ UNCHANGED <<known_states, known_states_names, TASKS_RUNTIME,
                   LATENCY, nseen, nevents, QUEUE_SIZE, QUEUE_TASKS, redis>>
    /\ UNCHANGED <<handlerVars, spc>>

\* _monitor: connecting or capturing raises; the handler logs, runs
\* setup_metrics and goes to sleep
Failure ==
    /\ pc \in {"connect", "capture"}
    /\ \E i \in Introspections :
         /\ setup_metrics(i.ok, i.registered)
         /\ last' = [op |-> "failure", ok |-> i.ok, registered |-> i.registered,
                      at |-> pc]
    /\ pc' = "sleep"
    /\ UNCHANGED <<tasks, known_states, known_states_names, TASKS_RUNTIME,
                   LATENCY, nseen, nevents, QUEUE_SIZE, QUEUE_TASKS, redis>>
    /\ UNCHANGED <<handlerVars, spc>>

Retry_gives_up ==
    /\ pc = "sleep"
    /\ pc' = "stopped"
    /\ last' = [op |-> "retry"]
    /\ UNCHANGED <<tasks, known_states, known_states_names, TASKS, TASKS_NAME,
                   TASKS_RUNTIME, LATENCY, WORKERS, nseen, nevents,
                   QUEUE_SIZE, QUEUE_TASKS, redis>>
    /\ UNCHANGED <<handlerVars, spc>>

\* _monitor: time.sleep(5) returns and the loop starts over
Retry ==
    /\ pc = "sleep"
    /\ pc' = "connect"
    /\ last' = [op |-> "retry"]
    /\ UNCHANGED <<tasks, known_states, known_states_names, TASKS, TASKS_NAME,
                   TASKS_RUNTIME, LATENCY, WORKERS, nseen, nevents,
                   QUEUE_SIZE, QUEUE_TASKS, redis>>
    /\ UNCHANGED <<handlerVars, spc>>

\* recv.capture delivers one event to _process_event: a task event, or an
\* event of another group (nevents counts the task events)
Deliver(budget) ==
    /\ pc = "capture"
    /\ nevents < budget
    /\ \/ \E evt \in Events :
            /\ WellFormed(evt)
            /\ process_event(evt)
            /\ nseen' = IF evt.uuid > nseen THEN evt.uuid ELSE nseen
            /\ last' = [op |-> "process_event", evt |-> evt,
                         resumed |-> last.op = "connected",
                         prev |-> IF Has(tasks, evt.uuid)
                                  THEN Get(tasks, evt.uuid).state ELSE None,
                         dropped |-> {tasks[i] : i \in {j \in 1..Len(tasks) :
                                           tasks[j].uuid \notin UuidsOf(tasks')}}]
            /\ nevents' = nevents + 1
       \/ \E evt \in WorkerEvents :
            /\ process_event(evt)
            /\ last' = [op |-> "process_event_other", evt |-> evt]
            /\ UNCHANGED <<nseen, nevents>>
    /\ UNCHANGED <<pc, WORKERS, QUEUE_SIZE, QUEUE_TASKS, redis>>
    /\ UNCHANGED <<handlerVars, spc>>

TaskEvent == Deliver(MaxEvents)

\* recv.capture delivers a task event of an unknown sub-type: the lookup of
\* line 75 raises KeyError, which only the handler of _monitor catches: it
\* logs, runs setup_metrics and goes to sleep
DeliverMalformed ==
    /\ pc = "capture"
    /\ \E evt \in MalformedEvents, i \in Introspections :
         /\ setup_metrics(i.ok, i.registered)
         /\ last' = [op |-> "failure", ok |-> i.ok, registered |-> i.registered,
                      at |-> pc, evt |-> evt]
    /\ pc' = "sleep"
    /\ UNCHANGED <<tasks, known_states, known_states_names, TASKS_RUNTIME,
                   LATENCY, nseen, nevents, QUEUE_SIZE, QUEUE_TASKS, redis>>
    /\ UNCHANGED <<handlerVars, spc>>

\* the module is loaded: no metric has a child, the registry is empty
Init ==
    /\ tasks = <<>>
    /\ known_states = {}
    /\ known_states_names = {}
    /\ TASKS = Empty
    /\ TASKS_NAME = Empty
    /\ last = [op |-> "init"]
    /\ TASKS_RUNTIME = Empty
    /\ LATENCY = [count |-> 0, sum |-> 0]
    /\ WORKERS = 0
    /\ QUEUE_SIZE = Empty
    /\ QUEUE_TASKS = Empty
    /\ redis = [q \in QueueNames |-> <<>>]
    /\ pc = "main"
    /\ nseen = 0
    /\ nevents = 0
    /\ mutex = {}
    /\ hpc = [h \in Handlers |-> "idle"]
    /\ hevt = [h \in Handlers |-> None]
    /\ snap = [tasks |-> <<>>, known_states |-> {}, known_states_names |-> {},
               TASKS |-> Empty, TASKS_NAME |-> Empty, TASKS_RUNTIME |-> Empty,
               LATENCY |-> [count |-> 0, sum |-> 0]]
    /\ spc = [c \in Samplers |-> "pass"]

Next == Main \/ Connect \/ Failure \/ Retry \/ TaskEvent \/ DeliverMalformed

Spec == Init /\ [][Next]_vars

\* ------------------------------------------------------ the sampler loops
after_pass_dies_on_failure(c, failed) ==
    [spc EXCEPT ![c] = IF failed THEN "dead" ELSE "sleep"]

\* run() of a sampler thread: whether the pass returned or raised (the
\* exception is caught and logged), time.sleep(periodicity_seconds) is next
after_pass(c, failed) == [spc EXCEPT ![c] = "sleep"]

\* time.sleep returns and the loop of run() starts over
Wake(c) ==
    /\ spc[c] = "sleep"
    /\ spc' = [spc EXCEPT ![c] = "pass"]
    /\ last' = [op |-> "wake", c |-> c]
    /\ UNCHANGED <<tasks, known_states, known_states_names, TASKS, TASKS_NAME,
                   TASKS_RUNTIME, LATENCY, WORKERS, QUEUE_SIZE, QUEUE_TASKS,
                   redis, pc, nseen, nevents, handlerVars>>

WorkerWake == Wake("worker")
QueueWake == Wake("queue")
EnableWake == Wake("enable")

\* EnableEventsThread.run: enable_events() returns or raises
EnableEvents ==
    /\ spc["enable"] = "pass"
    /\ \E ok \in BOOLEAN :
         /\ last' = [op |-> "enable_events", ok |-> ok]
         /\ spc' = after_pass("enable", ~ok)
    /\ UNCHANGED <<tasks, known_states, known_states_names, TASKS, TASKS_NAME,
                   TASKS_RUNTIME, LATENCY, WORKERS, QUEUE_SIZE, QUEUE_TASKS,
                   redis, pc, nseen, nevents, handlerVars>>

\* ------------------------------------------------ WorkerMonitoringThread
\* update_workers_count: the ping answers with n workers
update_workers_count(n) ==
    /\ WORKERS' = n
    /\ last' = [op |-> "update_workers_count", ok |-> TRUE, answered |-> n]

update_workers_count_failed_resets ==
    /\ WORKERS' = 0
    /\ last' = [op |-> "update_workers_count", ok |-> FALSE, answered |-> 0]

\* update_workers_count: the ping raises; the handler only logs
update_workers_count_failed ==
    /\ WORKERS' = WORKERS
    /\ last' = [op |-> "update_workers_count", ok |-> FALSE, answered |-> 0]

Ping ==
    /\ spc["worker"] = "pass"
    /\ \E n \in 0..MaxPing : update_workers_count(n)
    /\ UNCHANGED <<tasks, known_states, known_states_names, TASKS, TASKS_NAME,
                   TASKS_RUNTIME, LATENCY, QUEUE_SIZE, QUEUE_TASKS, redis,
                   pc, nseen, nevents>>
    /\ spc' = after_pass("worker", FALSE)
    /\ UNCHANGED handlerVars

PingFails ==
    /\ spc["worker"] = "pass"
    /\ update_workers_count_failed
    /\ UNCHANGED <<tasks, known_states, known_states_names, TASKS, TASKS_NAME,
                   TASKS_RUNTIME, LATENCY, QUEUE_SIZE, QUEUE_TASKS, redis,
                   pc, nseen, nevents>>
    /\ spc' = after_pass("worker", TRUE)
    /\ UNCHANGED handlerVars

\* ------------------------------------------------- QueueMonitoringThread
\* A queued payload is text that is not JSON (json.loads raises
\* JSONDecodeError), JSON text of a value that is no object, such as 5 or
\* null (json.loads returns it), or a JSON object whose headers are an
\* object that names a task type or names none.
TaskTypes == {"A"}
Payloads ==
    {[kind |-> "notjson", task |-> None], [kind |-> "nonobject", task |-> None]}
    \cup {[kind |-> "object", task |-> t] : t \in TaskTypes \cup {None}}

\* get_tasks_stat(tasks): the loop of lines 228-235 from the payloads left,
\* with name2count so far.  'headers' in task_json raises TypeError when
\* task_json is no container; nothing catches it here.
RECURSIVE tasks_stat_loop(_, _)
tasks_stat_loop(payloads, name2count) ==
    IF payloads = <<>>
    THEN [raised |-> FALSE, name2count |-> name2count]
    ELSE LET task == Head(payloads)
         IN  IF task.kind = "notjson"
             THEN tasks_stat_loop(Tail(payloads), name2count)
             ELSE IF task.kind = "nonobject"
             THEN [raised |-> TRUE, name2count |-> name2count]
             ELSE IF task.task # None
             THEN tasks_stat_loop(Tail(payloads), IncLabel(name2count, task.task))
             ELSE tasks_stat_loop(Tail(payloads), name2count)

get_tasks_stat(payloads) == tasks_stat_loop(payloads, Empty)

\* update_queues_metrics: the loop of lines 194-200 over the queue names left;
\* st holds the two gauges, the two sets of known labels and whether
\* get_tasks_stat raised (which leaves the loop and the method).
RECURSIVE queues_loop(_, _)
queues_loop(queue_names, st) ==
    IF queue_names = <<>> \/ st.raised
    THEN st
    ELSE LET queue_name == Head(queue_names)
             size == Len(redis[queue_name])
             stat == get_tasks_stat(redis[queue_name])
             counted == DOMAIN stat.name2count
             keys == {<<queue_name, Str(t)>> : t \in counted}
         IN  queues_loop(Tail(queue_names),
                [QUEUE_SIZE |-> SetLabel(st.QUEUE_SIZE, <<queue_name>>, size),
                 known_queues |-> st.known_queues \cup {<<queue_name>>},
                 QUEUE_TASKS |->
                    IF stat.raised THEN st.QUEUE_TASKS
                    ELSE [x \in DOMAIN st.QUEUE_TASKS \cup keys |->
                            IF x \in keys THEN stat.name2count[x[2]]
                            ELSE st.QUEUE_TASKS[x]],
                 known_tasks |->
                    IF stat.raised THEN st.known_tasks
                    ELSE st.known_tasks \cup {<<queue_name, t>> : t \in counted},
                 raised |-> stat.raised])

update_queues_metrics(queue_names) ==
    LET st == queues_loop(queue_names,
                 [QUEUE_SIZE |-> QUEUE_SIZE, known_queues |-> {},
                  QUEUE_TASKS |-> QUEUE_TASKS, known_tasks |-> {},
                  raised |-> FALSE])
    IN  /\ QUEUE_SIZE' = IF st.raised THEN st.QUEUE_SIZE
                         ELSE reset_metrics(st.QUEUE_SIZE, st.known_queues)
        /\ QUEUE_TASKS' = IF st.raised THEN st.QUEUE_TASKS
                          ELSE reset_metrics(st.QUEUE_TASKS, st.known_tasks)
        /\ last' = [op |-> "update_queues_metrics",
                    listed |-> {queue_names[i] : i \in 1..Len(queue_names)},
                    raised |-> IF st.raised THEN "TypeError" ELSE "no"]

\* the answers of get_queue_names: one name per worker and queue, so a queue
\* that two workers consume is listed twice
Listings ==
    {<<>>} \cup {<<q>> : q \in QueueNames}
    \cup {<<q, r>> : q \in QueueNames, r \in QueueNames}

\* run(): one pass in which the listing and the pipeline answer
QueuePass ==
    /\ spc["queue"] = "pass"
    /\ \E queue_names \in Listings : update_queues_metrics(queue_names)
    /\ UNCHANGED <<tasks, known_states, known_states_names, TASKS, TASKS_NAME,
                   TASKS_RUNTIME, LATENCY, WORKERS, redis, pc, nseen, nevents>>
    /\ spc' = after_pass("queue", last'.raised # "no")
    /\ UNCHANGED handlerVars

\* run(): one pass in which get_queue_names or get_queues raises
QueuePassFails ==
    /\ spc["queue"] = "pass"
    /\ last' = [op |-> "update_queues_metrics", listed |-> {},
                raised |-> "listing"]
    /\ UNCHANGED <<tasks, known_states, known_states_names, TASKS, TASKS_NAME,
                   TASKS_RUNTIME, LATENCY, WORKERS, QUEUE_SIZE, QUEUE_TASKS,
                   redis, pc, nseen, nevents>>
    /\ spc' = after_pass("queue", TRUE)
    /\ UNCHANGED handlerVars

\* the broker: something is pushed to a queue, a worker takes a message
Queued == Len(redis["q1"]) + Len(redis["q2"])

Push ==
    /\ Queued < MaxPayloads
    /\ \E q \in QueueNames, p \in Payloads :
         redis' = [redis EXCEPT ![q] = Append(@, p)]
    /\ last' = [op |-> "broker"]
    /\ UNCHANGED <<tasks, known_states, known_states_names, TASKS, TASKS_NAME,
                   TASKS_RUNTIME, LATENCY, WORKERS, QUEUE_SIZE, QUEUE_TASKS,
                   pc, nseen, nevents>>
    /\ UNCHANGED <<handlerVars, spc>>

Take ==
    /\ \E q \in QueueNames :
         /\ redis[q] # <<>>
         /\ redis' = [redis EXCEPT ![q] = Tail(@)]
    /\ last' = [op |-> "broker"]
    /\ UNCHANGED <<tasks, known_states, known_states_names, TASKS, TASKS_NAME,
                   TASKS_RUNTIME, LATENCY, WORKERS, QUEUE_SIZE, QUEUE_TASKS,
                   pc, nseen, nevents>>
    /\ UNCHANGED <<handlerVars, spc>>

\* The queue sampler and the broker's queues
QueueNext == QueuePass \/ QueuePassFails \/ QueueWake \/ Push \/ Take

QueueSpec == Init /\ [][QueueNext]_vars

\* The worker liveness sampler next to the monitor loop while no event arrives
WorkerNext ==
    Ping \/ PingFails \/ WorkerWake \/ Main \/ Connect \/ Failure \/ Retry

WorkerSpec == Init /\ [][WorkerNext]_vars

\* The three sampler threads side by side, with one message in the broker's
\* queues; time.sleep returns
SamplerPush == Queued = 0 /\ Push

SamplerNext ==
    \/ Ping \/ PingFails \/ WorkerWake
    \/ QueuePass \/ QueuePassFails \/ QueueWake
    \/ EnableEvents \/ EnableWake
    \/ SamplerPush

SamplerSpec ==
    /\ Init
    /\ [][SamplerNext]_vars
    /\ \A c \in Samplers : WF_vars(Wake(c))

\* One capture session that is not interrupted, followed one event further,
\* with workers that answer introspection and have every task registered
SessionEvent == Deliver(MaxEvents + 1)

SessionMain == Main /\ last'.ok /\ last'.registered = Names

SessionConnect == Connect /\ last'.ok /\ last'.registered = Names

SessionNext == SessionMain \/ SessionConnect \/ SessionEvent

SessionSpec == Init /\ [][SessionNext]_vars

\* The monitor loop under the scheduling the code relies on: the thread is
\* started, time.sleep(5) returns, and an attempt to connect ends, with a
\* connection or with an exception.
LiveEvent == Deliver(MaxEvents - 1)

LiveNext == Main \/ Connect \/ Failure \/ Retry \/ LiveEvent

LiveSpec ==
    /\ Init
    /\ [][LiveNext]_vars
    /\ WF_vars(Main)
    /\ WF_vars(Retry)
    /\ WF_vars(Connect \/ Failure)

\* ------------------------------------- _process_event called concurrently
\* The receiver's handlers may be called from several execution contexts.
\* Each call is followed line by line: it waits for self._state._mutex,
\* runs lines 71-83 and leaves the with block.
otherVars == <<WORKERS, QUEUE_SIZE, QUEUE_TASKS, redis, pc, spc>>

\* a handler is called with the next task event
Receive(h) ==
    /\ pc = "capture"
    /\ hpc[h] = "idle"
    /\ nevents < MaxEvents - 1
    /\ \E evt \in Events :
         /\ WellFormed(evt)
         /\ hevt' = [hevt EXCEPT ![h] = evt]
         /\ nseen' = IF evt.uuid > nseen THEN evt.uuid ELSE nseen
    /\ nevents' = nevents + 1
    /\ hpc' = [hpc EXCEPT ![h] = "wait"]
    /\ last' = [op |-> "handler", step |-> "called", h |-> h]
    /\ UNCHANGED <<tasks, known_states, known_states_names, TASKS, TASKS_NAME,
                   TASKS_RUNTIME, LATENCY, mutex, snap, otherVars>>

Acquire_without_mutex(h) ==
    /\ hpc[h] = "wait"
    /\ mutex' = {h}
    /\ snap' = MonitorState
    /\ hpc' = [hpc EXCEPT ![h] = "latency"]
    /\ last' = [op |-> "handler", step |-> "acquired", h |-> h]
    /\ UNCHANGED <<tasks, known_states, known_states_names, TASKS, TASKS_NAME,
                   TASKS_RUNTIME, LATENCY, hevt, nseen, nevents, otherVars>>

\* line 70: with self._state._mutex
Acquire(h) ==
    /\ hpc[h] = "wait"
    /\ mutex = {}
    /\ mutex' = {h}
    /\ snap' = MonitorState
    /\ hpc' = [hpc EXCEPT ![h] = "latency"]
    /\ last' = [op |-> "handler", step |-> "acquired", h |-> h]
    /\ UNCHANGED <<tasks, known_states, known_states_names, TASKS, TASKS_NAME,
                   TASKS_RUNTIME, LATENCY, hevt, nseen, nevents, otherVars>>

\* lines 71-82: the state is looked up, a STARTED event observes its latency
ObserveLatency(h) ==
    /\ hpc[h] = "latency"
    /\ Publish(latency_step(MonitorState, hevt[h]))
    /\ hpc' = [hpc EXCEPT ![h] = "collect"]
    /\ last' = [op |-> "handler", step |-> "latency", h |-> h]
    /\ UNCHANGED <<mutex, snap, hevt, nseen, nevents, otherVars>>

\* lines 97-101: the registry is changed
CollectTasks(h) ==
    /\ hpc[h] = "collect"
    /\ Publish(collect_step(MonitorState, hevt[h]))
    /\ hpc' = [hpc EXCEPT ![h] = "unready"]
    /\ last' = [op |-> "handler", step |-> "collect", h |-> h]
    /\ UNCHANGED <<mutex, snap, hevt, nseen, nevents, otherVars>>

\* line 102: the registry is read and the gauges are published; the with
\* block ends and the mutex is released
CollectUnready(h) ==
    /\ hpc[h] = "unready"
    /\ Publish(unready_step(MonitorState))
    /\ hpc' = [hpc EXCEPT ![h] = "idle"]
    /\ mutex' = {}
    /\ last' = [op |-> "handler", step |-> "released", h |-> h]
    /\ UNCHANGED <<snap, hevt, nseen, nevents, otherVars>>

ConcurrentNext ==
    \/ Main
    \/ Connect
    \/ \E h \in Handlers :
         \/ Receive(h)
         \/ Acquire(h)
         \/ ObserveLatency(h)
         \/ CollectTasks(h)
         \/ CollectUnready(h)

ConcurrentSpec == Init /\ [][ConcurrentNext]_vars

\* ===================================================================
\* Properties
\* ===================================================================
\* this step is _process_event handling the event recorded in last'
EventStep == last'.op = "process_event" /\ nevents' = nevents + 1
Ready(e) == TASK_EVENT_TO_STATE(e.type) \in READY_STATES
RecordsOf(t, uuid) == {i \in 1..Len(t) : t[i].uuid = uuid}
OldestInserted(t) ==
    CHOOSE u \in UuidsOf(t) : \A v \in UuidsOf(t) : Get(t, u).inserted <= Get(t, v).inserted
\* the registry is full and the event is a non-terminal one for an id it lacks
AtCapacityNew(e) ==
    /\ ~Ready(e)
    /\ ~Has(tasks, e.uuid)
    /\ Len(tasks) = MaxTasksInMemory

\* C1 as stated: the registry never holds more than max_tasks_in_memory
\* records, and a non-terminal event for a new id that arrives when it is full
\* evicts exactly one record, the oldest by insertion.
C1_EvictsOldestInserted ==
    [][EventStep =>
        /\ Len(tasks') <= MaxTasksInMemory
        /\ AtCapacityNew(last'.evt) =>
             UuidsOf(tasks') = (UuidsOf(tasks) \ {OldestInserted(tasks)})
                               \cup {last'.evt.uuid}]_vars

\* C1 amended: the registry never holds more than max_tasks_in_memory records,
\* and a non-terminal event for a new id that arrives when it is full evicts
\* exactly one record, the least recently used one: the record at the old end
\* of the registry's order, where a record goes to the young end when it is
\* inserted and when a STARTED event for its id looks it up.
C1_EvictsLeastRecentlyUsed ==
    [][EventStep =>
        /\ Len(tasks') <= MaxTasksInMemory
        /\ AtCapacityNew(last'.evt) =>
             /\ UuidsOf(tasks') = (UuidsOf(tasks) \ {Head(tasks).uuid})
                                  \cup {last'.evt.uuid}
             /\ Len(tasks') = MaxTasksInMemory
             /\ last'.dropped = {Head(tasks)}]_vars

\* C1 witness: an event has evicted a record although a record that was
\* inserted before the evicted one is still tracked
C1_Witness ==
    /\ last.op = "process_event"
    /\ ~Ready(last.evt)
    /\ Len(tasks) = MaxTasksInMemory
    /\ \E d \in last.dropped : \E i \in 1..Len(tasks) : tasks[i].inserted < d.inserted

MergedState(old, new) ==
    IF new # RETRY /\ old # RETRY /\ precedence(new) > precedence(old)
    THEN old ELSE new

\* C3 as stated: after a non-terminal event the registry holds exactly one
\* record for the event's id and its state is the mapped state of the event
\* (last write wins).
C3_LastWriteWins ==
    [][(EventStep /\ ~Ready(last'.evt)) =>
        /\ Cardinality(RecordsOf(tasks', last'.evt.uuid)) = 1
        /\ Get(tasks', last'.evt.uuid).state = TASK_EVENT_TO_STATE(last'.evt.type)]_vars

\* C3 amended: after a non-terminal event the registry holds exactly one
\* record for the event's id; its state is the mapped state of the event,
\* unless that state logically precedes the state the record already had
\* (celery.states.PRECEDENCE) and neither of the two is RETRY: then the
\* record keeps its state.
C3_StateMergedByPrecedence ==
    [][(EventStep /\ ~Ready(last'.evt)) =>
        LET evt == last'.evt
            old == IF Has(tasks, evt.uuid) THEN Get(tasks, evt.uuid).state ELSE PENDING
        IN  /\ Cardinality(RecordsOf(tasks', evt.uuid)) = 1
            /\ Get(tasks', evt.uuid).state
                 = MergedState(old, TASK_EVENT_TO_STATE(evt.type))]_vars

\* C3 witness: a 'received' event was applied to a record and the record is
\* still STARTED
C3_Witness ==
    /\ last.op = "process_event"
    /\ last.evt.type = "task-received"
    /\ Has(tasks, last.evt.uuid)
    /\ Get(tasks, last.evt.uuid).state = STARTED

\* C4: a STARTED event observes a latency exactly when the record of its id,
\* as it was before the event, is in state RECEIVED, and the value observed is
\* the event's local_received minus the record's; no other event observes one.
C4_LatencyIffReceived ==
    [][EventStep =>
        LET evt == last'.evt
            observes == /\ evt.type = "task-started"
                        /\ Has(tasks, evt.uuid)
                        /\ Get(tasks, evt.uuid).state = RECEIVED
        IN  IF observes
            THEN /\ LATENCY'.count = LATENCY.count + 1
                 /\ LATENCY'.sum = LATENCY.sum
                        + (evt.local_received - Get(tasks, evt.uuid).local_received)
            ELSE LATENCY' = LATENCY]_vars

\* C4 witness: a STARTED event for a record in state RECEIVED has observed
\* the time since the record's local_received
C4_Witness ==
    /\ last.op = "process_event"
    /\ last.evt.type = "task-started"
    /\ last.prev = RECEIVED
    /\ LATENCY.count = 1
    /\ LATENCY.sum = 2

\* C10 as stated: no record of the registry is in one of the states SUCCESS,
\* FAILURE, REVOKED, REJECTED.
C10_NoTerminalOrRejectedRecord ==
    \A i \in 1..Len(tasks) : tasks[i].state \notin {SUCCESS, FAILURE, REVOKED, REJECTED}

\* C10 amended: the terminal states are SUCCESS, FAILURE and REVOKED
\* (celery.states.READY_STATES): after every event no record is in one of
\* them, and an event that maps to one of them leaves no record for its id.
\* REJECTED is not terminal: a 'rejected' event leaves a record for its id.
C10_NoReadyRecord ==
    [][EventStep =>
        /\ \A i \in 1..Len(tasks') : tasks'[i].state \notin {SUCCESS, FAILURE, REVOKED}
        /\ last'.evt.type \in {"task-succeeded", "task-failed", "task-revoked"}
             => ~Has(tasks', last'.evt.uuid)
        /\ last'.evt.type = "task-rejected" => Has(tasks', last'.evt.uuid)]_vars

\* C10 witness: a 'rejected' event has left a record in state REJECTED
C10_Witness ==
    /\ last.op = "process_event"
    /\ last.evt.type = "task-rejected"
    /\ Has(tasks, last.evt.uuid)
    /\ Get(tasks, last.evt.uuid).state = REJECTED

\* C5 as stated: when setup_metrics has run after a failure or on a
\* reconnect, and no event has been processed since, every child of
\* tasks{state} and of tasks_by_name{state,name} is 0, whether introspection
\* answered or not.
C5_AllZeroAfterReset ==
    last.op \in {"failure", "connected"} =>
        /\ \A k \in DOMAIN TASKS : TASKS[k] = 0
        /\ \A k \in DOMAIN TASKS_NAME : TASKS_NAME[k] = 0

\* C6 as stated: tasks{state} of a terminal state never decreases, whatever
\* the monitor thread does.
C6_TerminalCountersNeverDecrease ==
    [][\A s \in READY_STATES : Val(TASKS', s) >= Val(TASKS, s)]_vars

\* C6 amended: tasks{state} of a terminal state never decreases and loses
\* nothing while events are processed (evictions and aggregation passes
\* included): an event of that state adds 1, any other event leaves it alone;
\* every run of setup_metrics (at startup, on connect and after a failure)
\* sets it to 0.
C6_TerminalCountersKeptUntilReset ==
    [][/\ EventStep => \A s \in READY_STATES :
            /\ Val(TASKS', s) = Val(TASKS, s)
                  + (IF TASK_EVENT_TO_STATE(last'.evt.type) = s THEN 1 ELSE 0)
            /\ s \in DOMAIN TASKS => s \in DOMAIN TASKS'
       /\ last'.op \in {"main", "connected", "failure"} =>
            \A s \in READY_STATES : Val(TASKS', s) = 0]_vars

\* C6 witness: a non-terminal event has run its aggregation pass over a
\* registry that holds a record, and a terminal counter still holds the count
\* of two earlier events
C6_Witness ==
    /\ last.op = "process_event"
    /\ ~Ready(last.evt)
    /\ tasks # <<>>
    /\ \E s \in READY_STATES : Val(TASKS, s) = 2

\* the payloads of a list that decode to an object whose headers name type t
Naming(payloads, t) ==
    Cardinality({i \in 1..Len(payloads) :
                    payloads[i].kind = "object" /\ payloads[i].task = t})
\* C7: after a pass that completed, queue_size{q} is the length read for
\* every queue listed, queue_tasks{q,t} is the count tallied for every (q,t)
\* seen, and every other child of the two gauges is 0.
C7_CompletedPassPublishesAndZeroes ==
    (last.op = "update_queues_metrics" /\ last.raised = "no") =>
        /\ \A q \in last.listed :
             /\ <<q>> \in DOMAIN QUEUE_SIZE
             /\ QUEUE_SIZE[<<q>>] = Len(redis[q])
             /\ \A t \in TaskTypes : Naming(redis[q], t) > 0 =>
                  /\ <<q, t>> \in DOMAIN QUEUE_TASKS
                  /\ QUEUE_TASKS[<<q, t>>] = Naming(redis[q], t)
        /\ \A k \in DOMAIN QUEUE_SIZE :
             k[1] \notin last.listed => QUEUE_SIZE[k] = 0
        /\ \A k \in DOMAIN QUEUE_TASKS :
             (k[1] \notin last.listed \/ Naming(redis[k[1]], k[2]) = 0)
                => QUEUE_TASKS[k] = 0

\* C7 witness: after a completed pass a queue that was published with a
\* length, and a task type that was published with a count, stand at 0 while
\* another queue is published with its length
C7_Witness ==
    /\ last.op = "update_queues_metrics"
    /\ last.raised = "no"
    /\ \E k \in DOMAIN QUEUE_TASKS : QUEUE_TASKS[k] = 0
    /\ \E k \in DOMAIN QUEUE_SIZE : k[1] \notin last.listed /\ QUEUE_SIZE[k] = 0
    /\ \E k \in DOMAIN QUEUE_SIZE : k[1] \in last.listed /\ QUEUE_SIZE[k] > 0

\* C8: update_workers_count sets workers to the number of workers that
\* answered the ping; when the ping fails workers keeps its value.
C8_WorkersKeptOnFailedPing ==
    [][last'.op = "update_workers_count" =>
        IF last'.ok THEN WORKERS' = last'.answered ELSE WORKERS' = WORKERS]_vars

\* C8 witness: a ping has failed and workers still shows the workers of an
\* earlier ping
C8_Witness ==
    /\ last.op = "update_workers_count"
    /\ ~last.ok
    /\ WORKERS = 3

\* C9 as stated: for every list of payloads get_tasks_stat returns, for each
\* task type, the number of decodable payloads that name it, whatever other
\* payloads the list holds, and no payload makes the pass stop.
C9_MalformedPayloadsSkipped ==
    (last.op = "update_queues_metrics" /\ last.raised # "listing") =>
        /\ last.raised = "no"
        /\ \A q \in QueueNames :
             /\ ~get_tasks_stat(redis[q]).raised
             /\ \A t \in TaskTypes :
                  Val(get_tasks_stat(redis[q]).name2count, t) = Naming(redis[q], t)

\* the positions of a handler between taking and releasing the mutex
Inside == {"latency", "collect", "unready"}

\* C11: a handler is between lines 71 and 102 of _process_event only while it
\* holds the mutex, so at most one handler is there; the registry and the
\* metrics of the monitor change only in a step of the handler that holds the
\* mutex; and when a handler releases the mutex the registry, the known labels
\* and the metrics are exactly what _process_event makes, in one step, of the
\* data it found when it took the mutex: the events take effect one after the
\* other, in the order in which the mutex was taken.
C11_EventsAtomicUnderMutex ==
    [][/\ \A h \in Handlers : hpc'[h] \in Inside => mutex' = {h}
       /\ (last'.op = "handler" /\ MonitorState' # MonitorState) =>
             /\ mutex = {last'.h}
             /\ hpc[last'.h] \in Inside
       /\ \A h \in Handlers : (hpc[h] = "unready" /\ hpc'[h] = "idle") =>
             MonitorState' = process_event_from(snap, hevt[h])]_vars

\* C11 witness: a handler has run a whole event and released the mutex while
\* the other handler, called with an event of its own, was waiting for it
C11_Witness ==
    /\ last.op = "handler"
    /\ last.step = "released"
    /\ \E h \in Handlers : h # last.h /\ hpc[h] = "wait"
    /\ tasks # <<>>
    /\ snap.tasks # tasks

C13_GaugesMatchRegistry ==
    /\ \A s \in known_states :
         s \in DOMAIN TASKS /\ TASKS[s] = CountState(tasks, s)
    /\ \A sn \in known_states_names :
         sn \in DOMAIN TASKS_NAME /\ TASKS_NAME[sn] = CountStateName(tasks, sn)

\* C14 as stated: every metric has one writer among the threads that run at
\* the same time: no step of the monitor thread (connecting, capturing,
\* handling a failure) changes workers, which the worker thread publishes, or
\* the queue gauges, and no step of the worker thread changes a gauge of the
\* monitor thread or of the queue thread.
C14_OneWriterPerMetric ==
    [][/\ last'.op \in {"connected", "failure", "process_event"} =>
            /\ WORKERS' = WORKERS
            /\ UNCHANGED <<QUEUE_SIZE, QUEUE_TASKS>>
       /\ last'.op = "update_workers_count" =>
            UNCHANGED <<TASKS, TASKS_NAME, QUEUE_SIZE, QUEUE_TASKS>>]_vars

\* C15: an event that is not of the task group (a worker heartbeat) changes
\* nothing: the registry, the known labels, tasks,
\* tasks_by_name, the latency and the runtime histograms are as before, and
\* capture goes on.
C15_OtherEventsIgnored ==
    [][last'.op = "process_event_other" =>
        /\ UNCHANGED <<tasks, known_states, known_states_names, TASKS,
                       TASKS_NAME, TASKS_RUNTIME, LATENCY>>
        /\ pc' = "capture"]_vars

\* C15 witness: a worker event was delivered while the registry held a record
\* that the gauges, reset by a reconnect, did not show; they still do not
C15_Witness ==
    /\ last.op = "process_event_other"
    /\ \E s \in known_states : CountState(tasks, s) > 0 /\ Val(TASKS, s) = 0

\* C16 as stated: a task event of an unknown sub-type is dropped: the
\* registry and the metrics are as before, and capture goes on.
C16_MalformedEventDropped ==
    [][(last'.op = "failure" /\ "evt" \in DOMAIN last') =>
        /\ pc' = "capture"
        /\ UNCHANGED <<tasks, TASKS, TASKS_NAME, WORKERS>>]_vars

\* C17 as stated: a terminal event that removes a record without a name
\* creates no tasks_by_name series, changes no tasks_by_name series of a
\* terminal state and records no runtime observation.
C17_UnnamedRecordNotCounted ==
    [][(/\ EventStep
        /\ Ready(last'.evt)
        /\ Has(tasks, last'.evt.uuid)
        /\ Get(tasks, last'.evt.uuid).name = None) =>
        /\ DOMAIN TASKS_NAME' = DOMAIN TASKS_NAME
        /\ \A k \in DOMAIN TASKS_NAME :
             k[1] \in READY_STATES => TASKS_NAME'[k] = TASKS_NAME[k]
        /\ TASKS_RUNTIME' = TASKS_RUNTIME]_vars

\* the operation a sampler's pass is recorded as
PassOp(c) ==
    CASE c = "worker" -> "update_workers_count"
      [] c = "queue" -> "update_queues_metrics"
      [] c = "enable" -> "enable_events"

\* C18: a sampler thread is always either in a pass or in the sleep that
\* follows it; its pass, whether it returned or failed (a failed ping, a
\* listing that raised, a payload that raised TypeError, a failed
\* enable_events), is followed by the sleep, a pass starts only from the top
\* of the loop, and every sleep is followed by the next pass.
C18_SamplersNeverStop ==
    /\ [][\A c \in Samplers :
            /\ spc'[c] \in {"pass", "sleep"}
            /\ spc'[c] # spc[c] =>
                 \/ spc[c] = "pass" /\ spc'[c] = "sleep" /\ last'.op = PassOp(c)
                 \/ spc[c] = "sleep" /\ spc'[c] = "pass" /\ last'.op = "wake"
            /\ (last'.op = PassOp(c) /\ last' # last) =>
                 (spc[c] = "pass" /\ spc'[c] = "sleep")]_vars
    /\ \A c \in Samplers : (spc[c] = "sleep") ~> (spc[c] = "pass")

\* C18 witness: the queue sampler is at the top of its loop again after a
\* pass that raised TypeError, and the worker sampler is asleep after a
\* failed ping
C18_Witness ==
    /\ spc["queue"] = "pass"
    /\ last = [op |-> "wake", c |-> "queue"]
    /\ spc["worker"] = "sleep"
    /\ \E q \in QueueNames :
         /\ get_tasks_stat(redis[q]).raised
         /\ Val(QUEUE_SIZE, <<q>>) = 1

\* C19 as stated: a terminal event for an id that is not in the registry adds
\* exactly 1 to tasks{state}, changes no tasks_by_name series, records no
\* runtime observation, creates no record and raises no error.
C19_UnknownIdOnlyCounted ==
    [][(EventStep /\ Ready(last'.evt) /\ ~Has(tasks, last'.evt.uuid)) =>
        /\ Val(TASKS', TASK_EVENT_TO_STATE(last'.evt.type))
             = Val(TASKS, TASK_EVENT_TO_STATE(last'.evt.type)) + 1
        /\ TASKS_NAME' = TASKS_NAME
        /\ TASKS_RUNTIME' = TASKS_RUNTIME
        /\ tasks' = tasks
        /\ pc' = "capture"]_vars

\* C20: the setup_metrics of a failure handler and of a reconnect changes
\* metric values only: the registry, the known labels and the histograms are
\* as before.  A record that was tracked before the failure is therefore
\* still tracked, and the aggregation of every task event that follows, the
\* first one after the reconnect included, publishes for every record the
\* registry then holds the number of records in its state, and with its state
\* and name when it has a name; each such record is counted.
C20_ResetKeepsRegistry ==
    [][/\ last'.op \in {"connected", "failure"} =>
            UNCHANGED <<tasks, known_states, known_states_names,
                        TASKS_RUNTIME, LATENCY>>
       /\ EventStep => \A i \in 1..Len(tasks') :
            LET rec == tasks'[i]
            IN  /\ rec.state \in DOMAIN TASKS'
                /\ TASKS'[rec.state] = CountState(tasks', rec.state)
                /\ TASKS'[rec.state] >= 1
                /\ rec.name # None =>
                     /\ <<rec.state, rec.name>> \in DOMAIN TASKS_NAME'
                     /\ TASKS_NAME'[<<rec.state, rec.name>>]
                          = CountStateName(tasks', <<rec.state, rec.name>>)
                     /\ TASKS_NAME'[<<rec.state, rec.name>>] >= 1]_vars

\* C20 witness: the first task event after a reconnect was for another id,
\* and a named record tracked since before the failure is counted in both
\* gauges again
C20_Witness ==
    /\ last.op = "process_event"
    /\ last.resumed
    /\ nevents >= 2
    /\ \E i \in 1..Len(tasks) :
         /\ tasks[i].uuid # last.evt.uuid
         /\ tasks[i].inserted < last.evt.local_received
         /\ tasks[i].name # None
         /\ Val(TASKS, tasks[i].state) >= 1
         /\ Val(TASKS_NAME, <<tasks[i].state, tasks[i].name>>) >= 1

====
